---- MODULE Spec2Model ----
(***************************************************************************)
(* Model of src/hash.go (package pokecrypt): the 128-bit mixing hash, its  *)
(* wide-integer helpers and the seeded wrappers.                           *)
(*                                                                         *)
(* A uint64 is a sequence of four 16-bit limbs, least significant first,   *)
(* so that every Go operation keeps its 64-bit width (wraparound, lossy    *)
(* shifts) while every number the model checker handles stays small.  A    *)
(* Uint128 is the pair <<high, low>> of the source ([2]uint64, index 0 is  *)
(* the high word).  A natural number of the specification level is a limb  *)
(* sequence of any length.                                                 *)
(***************************************************************************)
EXTENDS Integers, Sequences, FiniteSets, TLC

Limb == 2^16

Max(a, b) == IF a >= b THEN a ELSE b

(***************************************************************************)
(* Natural numbers as limb sequences.                                      *)
(***************************************************************************)

\* a cut or zero-extended to n limbs: a mod 2^(16n)
Fit(a, n) == [i \in 1..n |-> IF i <= Len(a) THEN a[i] ELSE 0]

Zeros(n) == [i \in 1..n |-> 0]

RECURSIVE AddC(_, _, _, _)
AddC(a, b, i, c) ==
    IF i > Len(a) THEN <<c>>
    ELSE LET s == a[i] + b[i] + c
         IN  <<s % Limb>> \o AddC(a, b, i + 1, s \div Limb)

\* exact sum, one limb longer than the longer operand
NatAdd(a, b) ==
    LET n == Max(Len(a), Len(b))
    IN  AddC(Fit(a, n), Fit(b, n), 1, 0)

RECURSIVE SubB(_, _, _, _)
SubB(a, b, i, br) ==
    IF i > Len(a) THEN <<>>
    ELSE LET d == a[i] - b[i] - br
         IN  IF d < 0 THEN <<d + Limb>> \o SubB(a, b, i + 1, 1)
             ELSE <<d>> \o SubB(a, b, i + 1, 0)

\* a - b for a >= b, as long as the longer operand
NatSub(a, b) ==
    LET n == Max(Len(a), Len(b))
    IN  SubB(Fit(a, n), Fit(b, n), 1, 0)

RECURSIVE CmpFrom(_, _, _)
CmpFrom(a, b, i) ==
    IF i = 0 THEN 0
    ELSE IF a[i] < b[i] THEN -1
    ELSE IF a[i] > b[i] THEN 1
    ELSE CmpFrom(a, b, i - 1)

\* -1, 0, 1 as a < b, a = b, a > b (as numbers: leading zeros do not count)
NatCmp(a, b) ==
    LET n == Max(Len(a), Len(b))
    IN  CmpFrom(Fit(a, n), Fit(b, n), n)

\* the product of two limbs as <<low limb, high limb>>, every step below 2^31
MulLimb(a, b) ==
    LET p0 == (a % 256) * b
        p1 == (a \div 256) * b
        s  == p0 + (p1 % 256) * 256
    IN  <<s % Limb, (s \div Limb) + (p1 \div 256)>>

RECURSIVE MulRow(_, _, _, _)
MulRow(a, d, i, c) ==
    IF i > Len(a) THEN <<c>>
    ELSE LET p == MulLimb(a[i], d)
             s == p[1] + c
         IN  <<s % Limb>> \o MulRow(a, d, i + 1, p[2] + (s \div Limb))

RECURSIVE MulAcc(_, _, _)
MulAcc(a, b, j) ==
    IF j > Len(b) THEN Zeros(Len(a) + Len(b))
    ELSE Fit(NatAdd(Zeros(j - 1) \o MulRow(a, b[j], 1, 0), MulAcc(a, b, j + 1)),
             Len(a) + Len(b))

\* exact product, Len(a) + Len(b) limbs
NatMul(a, b) == MulAcc(a, b, 1)

\* one step of binary long division: (2r + bit) mod p, for r < p
ModStep(r, bit, p) ==
    LET r2 == Fit(NatAdd(NatAdd(r, r), <<bit>>), Len(p) + 1)
    IN  IF NatCmp(r2, p) >= 0 THEN NatSub(r2, p) ELSE r2

RECURSIVE ModBits(_, _, _, _)
\* the bits k-1 .. 0 of limb d shifted into the remainder r
ModBits(d, k, p, r) ==
    IF k = 0 THEN r
    ELSE LET r2 == ModStep(r, (d \div (2^(k - 1))) % 2, p)
         IN  IF Len(r2) > 0 THEN ModBits(d, k - 1, p, r2) ELSE r2

RECURSIVE ModFrom(_, _, _, _)
ModFrom(a, p, i, r) ==
    IF i = 0 THEN r
    ELSE LET r2 == ModBits(a[i], 16, p, r)
         IN  IF Len(r2) > 0 THEN ModFrom(a, p, i - 1, r2) ELSE r2

\* a mod p by binary long division, Len(p) limbs
NatMod(a, p) == Fit(ModFrom(a, p, Len(a), Zeros(Len(p) + 1)), Len(p))

(***************************************************************************)
(* uint64 and uint32: Go's unsigned operators, all modulo 2^64.            *)
(***************************************************************************)

\* the uint64 written as four 16-bit groups, most significant first
W64(a, b, c, d) == <<d, c, b, a>>

\* the uint64 of a small non-negative integer
U64(n) == <<n % Limb, n \div Limb, 0, 0>>

Zero64 == U64(0)

\* a + b
Add64(a, b) == Fit(NatAdd(a, b), 4)

\* a * b
Mul64(a, b) == Fit(NatMul(a, b), 4)

\* a < b
Lt64(a, b) == NatCmp(a, b) < 0

\* x << k, 0 <= k < 64: the bits shifted out are lost
Shl64(x, k) ==
    LET q == k \div 16
        r == k % 16
    IN  [i \in 1..4 |->
           (IF i - q >= 1 THEN (x[i - q] * (2^r)) % Limb ELSE 0)
         + (IF i - q - 1 >= 1 THEN x[i - q - 1] \div (2^(16 - r)) ELSE 0)]

\* x >> k, 0 <= k < 64
Shr64(x, k) ==
    LET q == k \div 16
        r == k % 16
    IN  [i \in 1..4 |->
           (IF i + q <= 4 THEN x[i + q] \div (2^r) ELSE 0)
         + (IF i + q + 1 <= 4 THEN (x[i + q + 1] % (2^r)) * (2^(16 - r)) ELSE 0)]

RECURSIVE BitAnd(_, _)
BitAnd(a, b) ==
    IF a = 0 \/ b = 0 THEN 0
    ELSE (a % 2) * (b % 2) + 2 * BitAnd(a \div 2, b \div 2)

\* a & b, a | b, a ^ b, ^a limb by limb
And64(a, b) == [i \in 1..Len(a) |-> BitAnd(a[i], b[i])]

Or64(a, b) == [i \in 1..Len(a) |-> a[i] + b[i] - BitAnd(a[i], b[i])]

Xor32(a, b) == [i \in 1..Len(a) |-> a[i] + b[i] - 2 * BitAnd(a[i], b[i])]

Not64(a) == [i \in 1..Len(a) |-> (Limb - 1) - a[i]]

(***************************************************************************)
(* Package-level values.                                                   *)
(***************************************************************************)

hashSeed == <<\h7FBF, \h6124>>

BlockSize == 128

magicTableInit ==
    << W64(\h95C0, \h5F4D, \h1512, \h959E), W64(\hE4F3, \hC46E, \hEF0D, \hCF07),
       W64(\h6238, \hDC22, \h8F98, \h0AD2), W64(\h53F3, \hE3BC, \h4960, \h7092),
       W64(\h4E7B, \hE706, \h9078, \hD625), W64(\h1016, \hD709, \hD1AD, \h25FC),
       W64(\h044E, \h89B8, \hAC76, \hE045), W64(\hE0B6, \h84DD, \hA364, \hBFA1),
       W64(\h90C5, \h33B8, \h35E8, \h9E5F), W64(\h3DAF, \h462A, \h74FA, \h874F),
       W64(\hFEA5, \h4965, \hDD3E, \hF5A0), W64(\h287A, \h5D7C, \hCB31, \hB970),
       W64(\hAE68, \h1046, \h8007, \h52F8), W64(\h121C, \h2D6E, \hAF66, \hEC6E),
       W64(\hEE8F, \h8CA7, \hE090, \hFB20), W64(\hCE1A, \hE25F, \h48FE, \h0A52) >>

magicRoundInit ==
    << W64(\h78F3, \h2468, \hCD48, \hD6DE), W64(\h14C9, \h8366, \h0183, \hC0AE) >>

magicFinalInit ==
    << W64(\hBDB3, \h1B10, \h864F, \h3F87), W64(\h5B7E, \h9E82, \h8A9B, \h8ABD) >>

(***************************************************************************)
(* Uint128 methods and the 64x64 -> 128 multiply.                          *)
(***************************************************************************)

Cmp(a, b) ==
    LET i == IF a[1] = b[1] THEN 2 ELSE 1
    IN  IF Lt64(a[i], b[i]) THEN -1
        ELSE IF Lt64(b[i], a[i]) THEN 1
        ELSE 0

\* the carry taken also when the low limbs are equal
Add_leq(a, b) ==
    LET sum == <<Add64(a[1], b[1]), Add64(a[2], b[2])>>
    IN  IF ~Lt64(b[2], sum[2]) THEN <<Add64(sum[1], U64(1)), sum[2]>> ELSE sum

Add(a, b) ==
    LET sum == <<Add64(a[1], b[1]), Add64(a[2], b[2])>>
    IN  IF Lt64(sum[2], b[2]) THEN <<Add64(sum[1], U64(1)), sum[2]>> ELSE sum

And(a, b) == <<And64(a[1], b[1]), And64(a[2], b[2])>>

mul64_128(a, b) ==
    LET zprod == NatMul(a, b)
    IN  <<SubSeq(zprod, 5, 8), SubSeq(zprod, 1, 4)>>

(***************************************************************************)
(* hashMulAdd: combine a new block with the previous hash.                 *)
(***************************************************************************)

\* the result without the carry of r1 into the high limb
Reassemble_noCarry(r0, r1, r2, r3) ==
    << Or64(Shr64(Shl64(r3, 33), 1), Shr64(Shl64(r2, 32), 32)),
       Or64(Shl64(r1, 32), Shr64(Shl64(r0, 32), 32)) >>

\* lines 145-147: the two output limbs from the carry chain
Reassemble(r0, r1, r2, r3) ==
    << Add64(Or64(Shr64(Shl64(r3, 33), 1), Shr64(Shl64(r2, 32), 32)),
             Shr64(r1, 32)),
       Or64(Shl64(r1, 32), Shr64(Shl64(r0, 32), 32)) >>

hashMulAdd(h, m, a) ==
    LET a0  == Shr64(Shl64(a[2], 32), 32)
        a1  == Shr64(a[2], 32)
        a23 == a[1]
        m0  == Shr64(Shl64(m[2], 32), 32)
        m1  == Shr64(m[2], 32)
        m2  == Shr64(Shl64(m[1], 32), 32)
        m3  == Shr64(m[1], 32)
        h0  == Shr64(Shl64(h[2], 32), 32)
        h1  == Shr64(h[2], 32)
        h2  == Shr64(Shl64(h[1], 32), 32)
        h3  == Shr64(h[1], 32)
        c0  == Mul64(h0, m0)
        c1  == Add64(Mul64(h0, m1), Mul64(h1, m0))
        c2  == Add64(Add64(Mul64(h0, m2), Mul64(h1, m1)), Mul64(h2, m0))
        c3  == Add64(Add64(Add64(Mul64(h0, m3), Mul64(h1, m2)), Mul64(h2, m1)),
                     Mul64(h3, m0))
        c4  == Add64(Add64(Mul64(h1, m3), Mul64(h2, m2)), Mul64(h3, m1))
        c5  == Add64(Mul64(h2, m3), Mul64(h3, m2))
        c6  == Mul64(h3, m3)
        r2  == Add64(Add64(c2, Shl64(c6, 1)), a23)
        r3  == Add64(c3, Shr64(r2, 32))
        r0  == Add64(Add64(Add64(c0, Shl64(c4, 1)), a0), Shr64(r3, 31))
        r1  == Add64(Add64(Add64(c1, Shl64(c5, 1)), a1), Shr64(r0, 32))
    IN  Reassemble(r0, r1, r2, r3)

(***************************************************************************)
(* Pieces of hash and hashBlock.  A byte buffer is a sequence of numbers   *)
(* 0..255; Go's index i is the sequence's index i + 1.                     *)
(***************************************************************************)

\* whether the slice s[lo:hi] is within bounds
InRange(s, lo, hi) == 0 <= lo /\ lo <= hi /\ hi <= Len(s)

\* s[lo:hi]
Slice(s, lo, hi) == SubSeq(s, lo + 1, hi)

\* binary.LittleEndian.Uint64(block[offset:])
LittleEndianUint64(block, offset) ==
    [i \in 1..4 |-> block[offset + 2 * i - 1] + 256 * block[offset + 2 * i]]

\* binary.BigEndian.PutUint32 into a fresh 4-byte prefix
BigEndianUint32(salt) ==
    <<salt[2] \div 256, salt[2] % 256, salt[1] \div 256, salt[1] % 256>>

\* a tail left at its own length
TailSize_unpadded(tailLen) == tailLen

\* the length of the padded tail
TailSize(tailLen) == 16 * ((tailLen + 15) \div 16)

\* a tail whose padding is not zero
PaddedTail_dirty(input, tailLen) ==
    [i \in 1..TailSize(tailLen) |->
        IF i <= tailLen THEN input[Len(input) - tailLen + i] ELSE tailLen]

\* tail := make([]byte, ...); copy(tail, input[len(input)-tailLen:])
PaddedTail(input, tailLen) ==
    [i \in 1..TailSize(tailLen) |->
        IF i <= tailLen THEN input[Len(input) - tailLen + i] ELSE 0]

\* a loop that stops one block early
LoopCond_early(numBlocks) == numBlocks > 2

\* the loop condition of the block loop
LoopCond(numBlocks) == numBlocks > 1

\* one lane of hashBlock: the accumulator after the lane at offset
LaneHash(table, acc, block, offset, magicIdx) ==
    LET a == Add64(LittleEndianUint64(block, offset), table[magicIdx + 1])
        b == Add64(LittleEndianUint64(block, offset + 8), table[magicIdx + 2])
    IN  Add(acc, mul64_128(a, b))

\* a mask that clears one bit only
u3fff_oneBit == <<Not64(Shl64(U64(1), 63)), Not64(U64(0))>>

u3fff == <<Not64(Shl64(U64(3), 62)), Not64(U64(0))>>

u7fff == <<Not64(Shl64(U64(1), 63)), Not64(U64(0))>>

\* the tail's length in bytes instead of bits
TailBits_bytes(tailLen) == <<U64(tailLen), Zero64>>

\* the Uint128 that carries the tail's bit length
TailBits(tailLen) == <<U64(tailLen * 8), Zero64>>

\* the reduction of lines 63-66
Reduce127(acc) ==
    And(IF Cmp(acc, u7fff) >= 0 THEN Add(acc, <<Zero64, U64(1)>>) ELSE acc, u7fff)

\* the two 64-bit lanes <<A, B>> of lines 68-80
FoldAB(final, acc) ==
    LET X0 == Add64(acc[1], Shr64(acc[2], 32))
        X  == Add64(Shr64(Add64(Add64(X0, Shr64(X0, 32)), U64(1)), 32), acc[1])
        Y  == Add64(Shl64(X, 32), acc[2])
        A0 == Add64(X, final[1])
        A  == IF Lt64(A0, X) THEN Add64(A0, U64(257)) ELSE A0
        B0 == Add64(Y, final[2])
        B  == IF Lt64(B0, Y) THEN Add64(B0, U64(257)) ELSE B0
    IN  <<A, B>>

\* one fold step of lines 83 and 84
Fold257(acc) == Add(mul64_128(acc[1], U64(257)), <<Zero64, acc[2]>>)

\* the product folded once only
MulFold_once(A, B) == Fold257(mul64_128(A, B))

\* lines 82-84: the product folded twice
MulFold(A, B) == Fold257(Fold257(mul64_128(A, B)))

\* lines 86-92: the digest from the folded product
Canonical(acc) ==
    LET r1 == IF acc[1] # Zero64 THEN Add64(acc[2], U64(257)) ELSE acc[2]
    IN  IF Lt64(W64(\hFFFF, \hFFFF, \hFFFF, \hFEFE), r1) THEN Add64(r1, U64(257))
        ELSE r1

\* the fold with the wrong shift
Fold32Of_shift16(ret) == Xor32(SubSeq(ret, 1, 2), SubSeq(Shr64(ret, 16), 1, 2))

\* uint32(ret) ^ uint32(ret>>32)
Fold32Of(ret) == Xor32(SubSeq(ret, 1, 2), SubSeq(Shr64(ret, 32), 1, 2))

(***************************************************************************)
(* State.  call[c] is the frame of call c: the wrapper entered (kind), the *)
(* caller's buffer and salt, the locals of hash and of the hashBlock it is *)
(* running, and the position pc.  trace and used are history: the order in *)
(* which segments entered the accumulator, and the magicTable indices the  *)
(* running hashBlock has read.  The three magic values are package-level   *)
(* variables of the source.  fn is one application of a helper to drawn    *)
(* arguments.                                                              *)
(***************************************************************************)
VARIABLES call, magicTable, magicRound, magicFinal, fn

vars == <<call, magicTable, magicRound, magicFinal, fn>>

globals == <<magicTable, magicRound, magicFinal>>

Zero128 == <<Zero64, Zero64>>

\* the frame of a call that has not run yet
NewCall(kind, buffer, salt) ==
    [ kind |-> kind, buffer |-> buffer, salt |-> salt,
      pc |-> IF kind = "hash" THEN "start" ELSE kind,
      input |-> IF kind = "hash" THEN buffer ELSE <<>>,
      numBlocks |-> 0, tailLen |-> 0, tail |-> <<>>, hash |-> Zero128,
      offset |-> 0,
      block |-> <<>>, boffset |-> 0, magicIdx |-> 0, bhash |-> Zero128,
      bret |-> Zero128, ret |-> "none", src |-> <<"none", 0>>,
      AB |-> Zero128, folded |-> Zero128,
      result |-> Zero64, result32 |-> <<0, 0>>,
      trace |-> <<>>, used |-> <<>> ]

NoFn == [op |-> "none", x |-> Zero128, y |-> Zero128, out |-> Zero128,
         aux |-> Zero128, pc |-> "done"]

\* the frame of call c entering hashBlock(block); src names the segment
EnterBlock(s, block, src, ret) ==
    [s EXCEPT !.block = block, !.boffset = 0, !.magicIdx = 0, !.bhash = Zero128,
              !.ret = ret, !.src = src, !.used = <<>>, !.pc = "block"]

Panic(s) == [s EXCEPT !.pc = "panic"]

(***************************************************************************)
(* The wrappers.                                                           *)
(***************************************************************************)

\* Hash32 and Hash64: the default seed
DefaultSeed(c) ==
    /\ call[c].pc \in {"Hash32", "Hash64"}
    /\ call' = [call EXCEPT ![c] =
                  [@ EXCEPT !.salt = hashSeed,
                            !.pc = IF @ = "Hash32" THEN "Hash32Salt" ELSE "Hash64Salt"]]
    /\ UNCHANGED <<globals, fn>>

\* Hash32Salt calls Hash64Salt
Hash32Salt(c) ==
    /\ call[c].pc = "Hash32Salt"
    /\ call' = [call EXCEPT ![c] = [@ EXCEPT !.pc = "Hash64Salt"]]
    /\ UNCHANGED <<globals, fn>>

\* Hash64Salt: the seed, big-endian, before a copy of the buffer
Hash64Salt(c) ==
    /\ call[c].pc = "Hash64Salt"
    /\ call' = [call EXCEPT ![c] =
                  [@ EXCEPT !.input = BigEndianUint32(call[c].salt) \o call[c].buffer,
                            !.pc = "start"]]
    /\ UNCHANGED <<globals, fn>>

(***************************************************************************)
(* hash.                                                                   *)
(***************************************************************************)

\* lines 31-36 with the tail kept in one buffer that all calls share
Start_sharedTail(c) ==
    LET s  == call[c]
        n  == Len(s.input)
        tl == n % BlockSize
    IN  /\ s.pc = "start"
        /\ call' = [d \in DOMAIN call |->
                      IF d = c
                      THEN [s EXCEPT !.numBlocks = n \div BlockSize,
                                     !.tailLen = tl,
                                     !.tail = PaddedTail(s.input, tl),
                                     !.pc = "first"]
                      ELSE [call[d] EXCEPT !.tail = PaddedTail(s.input, tl)]]
        /\ UNCHANGED <<globals, fn>>

\* lines 31-36
Start(c) ==
    LET s  == call[c]
        n  == Len(s.input)
        tl == n % BlockSize
    IN  /\ s.pc = "start"
        /\ call' = [call EXCEPT ![c] =
                      IF InRange(s.input, n - tl, n)
                      THEN [s EXCEPT !.numBlocks = n \div BlockSize,
                                     !.tailLen = tl,
                                     !.tail = PaddedTail(s.input, tl),
                                     !.pc = "first"]
                      ELSE Panic(s)]
        /\ UNCHANGED <<globals, fn>>

\* lines 39-43: the first segment goes to hashBlock
First(c) ==
    LET s == call[c]
    IN  /\ s.pc = "first"
        /\ call' = [call EXCEPT ![c] =
                      IF s.numBlocks > 0
                      THEN IF InRange(s.input, 0, BlockSize)
                           THEN EnterBlock(s, Slice(s.input, 0, BlockSize),
                                           <<"block", 0>>, "assign")
                           ELSE Panic(s)
                      ELSE EnterBlock(s, s.tail,
                                      <<"tail", Len(s.input) - s.tailLen>>, "assign")]
        /\ UNCHANGED <<globals, fn>>

\* lines 101-111: one lane of the running hashBlock
HashBlockLane(c) ==
    LET s == call[c]
    IN  /\ s.pc = "block"
        /\ s.boffset < Len(s.block)
        /\ call' = [call EXCEPT ![c] =
                      IF /\ InRange(s.block, s.boffset, s.boffset + 8)
                         /\ InRange(s.block, s.boffset + 8, s.boffset + 16)
                         /\ s.magicIdx + 1 < Len(magicTable)
                      THEN [s EXCEPT
                              !.bhash = LaneHash(magicTable, s.bhash, s.block,
                                                 s.boffset, s.magicIdx),
                              !.used = @ \o <<s.magicIdx, s.magicIdx + 1>>,
                              !.magicIdx = @ + 2,
                              !.boffset = @ + 16]
                      ELSE Panic(s)]
        /\ UNCHANGED <<globals, fn>>

\* lines 113-115: hashBlock returns the masked sum
HashBlockReturn(c) ==
    LET s == call[c]
    IN  /\ s.pc = "block"
        /\ ~(s.boffset < Len(s.block))
        /\ call' = [call EXCEPT ![c] =
                      [s EXCEPT !.bret = And(s.bhash, u3fff), !.pc = s.ret]]
        /\ UNCHANGED <<globals, fn>>

\* lines 40 and 42: hash = hashBlock(...)
Assign(c) ==
    LET s == call[c]
    IN  /\ s.pc = "assign"
        /\ call' = [call EXCEPT ![c] =
                      [s EXCEPT !.hash = s.bret,
                                !.trace = @ \o << <<"absorb", s.src[1], s.src[2]>> >>,
                                !.pc = "round"]]
        /\ UNCHANGED <<globals, fn>>

\* lines 45-48: hash = hash.Add(magicRound), and the loop's offset := BlockSize
AddRound(c) ==
    LET s == call[c]
    IN  /\ s.pc = "round"
        /\ call' = [call EXCEPT ![c] =
                      [s EXCEPT !.hash = Add(s.hash, magicRound),
                                !.trace = @ \o << <<"add", "round", 0>> >>,
                                !.offset = BlockSize,
                                !.pc = IF s.numBlocks > 0 THEN "loop" ELSE "final"]]
        /\ UNCHANGED <<globals, fn>>

\* lines 48-50: the next full block goes to hashBlock
Loop(c) ==
    LET s == call[c]
    IN  /\ s.pc = "loop"
        /\ LoopCond(s.numBlocks)
        /\ call' = [call EXCEPT ![c] =
                      IF InRange(s.input, s.offset, s.offset + BlockSize)
                      THEN EnterBlock(s, Slice(s.input, s.offset, s.offset + BlockSize),
                                      <<"block", s.offset>>, "combine")
                      ELSE Panic(s)]
        /\ UNCHANGED <<globals, fn>>

\* lines 49-51 and the loop's post statement
Combine(c) ==
    LET s == call[c]
    IN  /\ s.pc = "combine"
        /\ call' = [call EXCEPT ![c] =
                      [s EXCEPT !.hash = hashMulAdd(s.hash, magicRound, s.bret),
                                !.trace = @ \o << <<"combine", s.src[1], s.src[2]>> >>,
                                !.numBlocks = @ - 1,
                                !.offset = @ + BlockSize,
                                !.pc = "loop"]]
        /\ UNCHANGED <<globals, fn>>

\* lines 54-55: after the loop, the tail goes to hashBlock if it is not empty
LoopExit(c) ==
    LET s == call[c]
    IN  /\ s.pc = "loop"
        /\ ~LoopCond(s.numBlocks)
        /\ call' = [call EXCEPT ![c] =
                      IF s.tailLen > 0
                      THEN EnterBlock(s, s.tail,
                                      <<"tail", Len(s.input) - s.tailLen>>, "combineTail")
                      ELSE [s EXCEPT !.pc = "final"]]
        /\ UNCHANGED <<globals, fn>>

\* line 55
CombineTail(c) ==
    LET s == call[c]
    IN  /\ s.pc = "combineTail"
        /\ call' = [call EXCEPT ![c] =
                      [s EXCEPT !.hash = hashMulAdd(s.hash, magicRound, s.bret),
                                !.trace = @ \o << <<"combine", s.src[1], s.src[2]>> >>,
                                !.pc = "final"]]
        /\ UNCHANGED <<globals, fn>>

\* line 62
AddTailBits(c) ==
    LET s == call[c]
    IN  /\ s.pc = "final"
        /\ call' = [call EXCEPT ![c] =
                      [s EXCEPT !.hash = Add(s.hash, TailBits(s.tailLen)),
                                !.pc = "reduce"]]
        /\ UNCHANGED <<globals, fn>>

\* lines 63-66
Reduce(c) ==
    LET s == call[c]
    IN  /\ s.pc = "reduce"
        /\ call' = [call EXCEPT ![c] =
                      [s EXCEPT !.hash = Reduce127(s.hash), !.pc = "fold"]]
        /\ UNCHANGED <<globals, fn>>

\* lines 68-80
Fold(c) ==
    LET s == call[c]
    IN  /\ s.pc = "fold"
        /\ call' = [call EXCEPT ![c] =
                      [s EXCEPT !.AB = FoldAB(magicFinal, s.hash), !.pc = "mul"]]
        /\ UNCHANGED <<globals, fn>>

\* lines 82-94
MulReduce(c) ==
    LET s == call[c]
        h == MulFold(s.AB[1], s.AB[2])
    IN  /\ s.pc = "mul"
        /\ call' = [call EXCEPT ![c] =
                      [s EXCEPT !.hash = h, !.folded = h, !.result = Canonical(h),
                                !.pc = "return"]]
        /\ UNCHANGED <<globals, fn>>

\* hash returns to its caller; Hash32Salt folds the digest (line 196)
Return(c) ==
    LET s == call[c]
    IN  /\ s.pc = "return"
        /\ call' = [call EXCEPT ![c] =
                      IF s.kind \in {"Hash32", "Hash32Salt"}
                      THEN [s EXCEPT !.result32 = Fold32Of(s.result), !.pc = "done"]
                      ELSE [s EXCEPT !.pc = "done"]]
        /\ UNCHANGED <<globals, fn>>

Next ==
    \/ \E c \in DOMAIN call : DefaultSeed(c)
    \/ \E c \in DOMAIN call : Hash32Salt(c)
    \/ \E c \in DOMAIN call : Hash64Salt(c)
    \/ \E c \in DOMAIN call : Start(c)
    \/ \E c \in DOMAIN call : First(c)
    \/ \E c \in DOMAIN call : HashBlockLane(c)
    \/ \E c \in DOMAIN call : HashBlockReturn(c)
    \/ \E c \in DOMAIN call : Assign(c)
    \/ \E c \in DOMAIN call : AddRound(c)
    \/ \E c \in DOMAIN call : Loop(c)
    \/ \E c \in DOMAIN call : Combine(c)
    \/ \E c \in DOMAIN call : LoopExit(c)
    \/ \E c \in DOMAIN call : CombineTail(c)
    \/ \E c \in DOMAIN call : AddTailBits(c)
    \/ \E c \in DOMAIN call : Reduce(c)
    \/ \E c \in DOMAIN call : Fold(c)
    \/ \E c \in DOMAIN call : MulReduce(c)
    \/ \E c \in DOMAIN call : Return(c)

(***************************************************************************)
(* hash and hashBlock as functions of their argument: one call run alone,  *)
(* from its first statement to its return.                                 *)
(***************************************************************************)

RECURSIVE hashBlockFrom(_, _, _, _)
hashBlockFrom(block, offset, magicIdx, sum) ==
    IF offset < Len(block)
    THEN LET next == LaneHash(magicTable, sum, block, offset, magicIdx)
         IN  IF Len(next) > 0 THEN hashBlockFrom(block, offset + 16, magicIdx + 2, next)
             ELSE next
    ELSE And(sum, u3fff)

hashBlock(block) == hashBlockFrom(block, 0, 0, Zero128)

RECURSIVE hashLoop(_, _, _, _)
hashLoop(input, offset, numBlocks, sum) ==
    IF LoopCond(numBlocks)
    THEN LET next == hashMulAdd(sum, magicRound,
                                hashBlock(Slice(input, offset, offset + BlockSize)))
         IN  IF Len(next) > 0 THEN hashLoop(input, offset + BlockSize, numBlocks - 1, next)
             ELSE next
    ELSE sum

\* lines 31-57: the accumulator before finalization
hashAccumulate(input) ==
    LET numBlocks == Len(input) \div BlockSize
        tailLen   == Len(input) % BlockSize
        tail      == PaddedTail(input, tailLen)
        h0 == IF numBlocks > 0 THEN hashBlock(Slice(input, 0, BlockSize))
              ELSE hashBlock(tail)
        h1 == Add(h0, magicRound)
    IN  IF numBlocks > 0
        THEN LET h2 == hashLoop(input, BlockSize, numBlocks, h1)
             IN  IF tailLen > 0 THEN hashMulAdd(h2, magicRound, hashBlock(tail)) ELSE h2
        ELSE h1

\* lines 59-94: the digest of the accumulator
hashFinalize(acc, tailLen) ==
    LET reduced == Reduce127(Add(acc, TailBits(tailLen)))
        ab      == FoldAB(magicFinal, reduced)
    IN  IF Len(ab) > 0 THEN Canonical(MulFold(ab[1], ab[2])) ELSE Zero64

\* lines 30-95
hash(input) ==
    LET pre == hashAccumulate(input)
    IN  IF Len(pre) > 0 THEN hashFinalize(pre, Len(input) % BlockSize) ELSE Zero64

\* the buffer a call hands to hash
HashInput(kind, buffer, salt) ==
    IF kind = "hash" THEN buffer
    ELSE IF kind \in {"Hash32", "Hash64"} THEN BigEndianUint32(hashSeed) \o buffer
    ELSE BigEndianUint32(salt) \o buffer

(***************************************************************************)
(* Inputs.                                                                 *)
(***************************************************************************)

\* the largest number of full blocks of an input
MaxBlocks == 2

\* the byte patterns 0..MaxPattern fill the inputs
MaxPattern == 3

TailLens == {0, 1, 2, 15, 16, 17, 33, 100, 127}

PatByte(p, i) ==
    IF p = 0 THEN 0
    ELSE IF p = 1 THEN 255
    ELSE IF p = 2 THEN (IF i % BlockSize = 1 THEN 165 ELSE 0)
    ELSE (i * (2 * p + 31) + 11 * p) % 256

Buf(n, p) == SubSeq([i \in 1..n |-> PatByte(p, i)], 1, n)

Lens == {b * BlockSize + t : b \in 0..MaxBlocks, t \in TailLens}

Salts == {<<0, 0>>, hashSeed, <<\hFFFF, \hFFFF>>}

\* a single call: hash on every input, each wrapper on the inputs that put the
\* salted buffer on both sides of a block boundary
SingleCalls ==
    {NewCall("hash", Buf(n, p), <<0, 0>>) : n \in Lens, p \in 0..MaxPattern}
    \cup {NewCall(k, Buf(n, 2), st) : k \in {"Hash32Salt", "Hash64Salt"},
                                     n \in {0, 124, 125}, st \in Salts}
    \cup {NewCall(k, Buf(n, 2), <<0, 0>>) : k \in {"Hash32", "Hash64"},
                                           n \in {0, 124, 125}}

Init ==
    /\ call \in [{1} -> SingleCalls]
    /\ magicTable = magicTableInit
    /\ magicRound = magicRoundInit
    /\ magicFinal = magicFinalInit
    /\ fn = NoFn

Spec == Init /\ [][Next]_vars

(***************************************************************************)
(* Two calls running at once: their steps interleave in any order.         *)
(***************************************************************************)

\* the largest number of full blocks of an input of two concurrent calls
ConcBlocks == 1

ConcPairs ==
    \* two inputs whose tails differ by one trailing zero byte
    {<<NewCall("hash", Buf(b * BlockSize + t, p), <<0, 0>>),
       NewCall("hash", Buf(b * BlockSize + t + 1, p), <<0, 0>>)>> :
         b \in 0..ConcBlocks, t \in {1, 15}, p \in {0, 2}}
    \* unrelated inputs, one with several blocks
    \cup {<<NewCall("hash", Buf(2 * BlockSize + 1, 3), <<0, 0>>),
            NewCall("hash", Buf(b * BlockSize + 16, 1), <<0, 0>>)>> :
              b \in 0..ConcBlocks}
    \* the 32-bit and the 64-bit wrapper on one buffer and salt
    \cup {<<NewCall("Hash32Salt", Buf(n, 3), st), NewCall("Hash64Salt", Buf(n, 3), st)>> :
              n \in {0, 125}, st \in Salts}
    \cup {<<NewCall("Hash32", Buf(n, 3), <<0, 0>>), NewCall("Hash64", Buf(n, 3), <<0, 0>>)>> :
              n \in {0, 125}}

InitConc ==
    /\ call \in ConcPairs
    /\ magicTable = magicTableInit
    /\ magicRound = magicRoundInit
    /\ magicFinal = magicFinalInit
    /\ fn = NoFn

SpecConc == InitConc /\ [][Next]_vars

(***************************************************************************)
(* The helpers applied to drawn arguments.                                 *)
(***************************************************************************)

Max64 == Not64(Zero64)

\* 2^64 - 257
P64 == W64(\hFFFF, \hFFFF, \hFFFF, \hFEFF)

Edge64 ==
    { Zero64, U64(1), U64(257), W64(0, 0, \hFFFF, \hFFFF), W64(0, 1, 0, 0),
      W64(\h8000, 0, 0, 0), W64(\hFFFF, \hFFFF, \hFFFF, \hFEFE), P64, Max64,
      magicFinalInit[1], magicFinalInit[2] }

Edge128 ==
    {<<hi, lo>> : hi \in {Zero64, W64(\h3FFF, \hFFFF, \hFFFF, \hFFFF), Max64},
                  lo \in {Zero64, U64(1), W64(\h8000, 0, 0, 0), Max64}}
    \cup {magicRoundInit, u7fff}

\* accumulators with small and with large limbs
Accumulators ==
    { Zero128, <<Zero64, U64(1)>>, <<Zero64, Max64>>, <<U64(1), Zero64>>,
      <<W64(\h3FFF, \hFFFF, \h3FFF, \hFFFF), W64(\h3FFF, \hFFFF, \h3FFF, \hFFFF)>>,
      <<W64(\h1234, \h5678, \h0ABC, \hDEF0), W64(\h0FED, \hCBA9, \h3765, \h4321)>>,
      <<W64(\h8000, 0, 0, 0), Zero64>>, u7fff, <<Max64, Max64>>, magicRoundInit }

\* absorbed block values, all below 2^126
BlockValues ==
    { Zero128, <<Zero64, U64(1)>>, u3fff }

NewFn(op, x, y) ==
    [op |-> op, x |-> x, y |-> y, out |-> Zero128, aux |-> Zero128, pc |-> "ready"]

InitArith ==
    /\ call = <<>>
    /\ magicTable = magicTableInit
    /\ magicRound = magicRoundInit
    /\ magicFinal = magicFinalInit
    /\ fn \in {NewFn("Add", a, b) : a \in Edge128, b \in Edge128}
          \cup {NewFn("hashMulAdd", h, a) : h \in Accumulators, a \in BlockValues}
          \cup {NewFn("mulfold", <<A, B>>, Zero128) : A \in Edge64, B \in Edge64}
          \cup {NewFn("firstBlock", Buf(BlockSize + 1, p), Zero128) : p \in {0, 3}}

\* lines 31-45 and the hashBlock(tail) of line 55 on an input of one block and a
\* one-byte tail: the arguments of the hashMulAdd of line 55
ApplyFirstBlock ==
    /\ fn.pc = "ready"
    /\ fn.op = "firstBlock"
    /\ LET input   == fn.x
           tailLen == Len(input) % BlockSize
           tail    == PaddedTail(input, tailLen)
           acc     == Add(hashBlock(Slice(input, 0, BlockSize)), magicRound)
       IN  fn' = NewFn("hashMulAdd", acc, hashBlock(tail))
    /\ UNCHANGED <<call, globals>>

ApplyAdd ==
    /\ fn.pc = "ready"
    /\ fn.op = "Add"
    /\ fn' = [fn EXCEPT !.out = Add(fn.x, fn.y), !.pc = "done"]
    /\ UNCHANGED <<call, globals>>

ApplyMulAdd ==
    /\ fn.pc = "ready"
    /\ fn.op = "hashMulAdd"
    /\ fn' = [fn EXCEPT !.out = hashMulAdd(fn.x, magicRound, fn.y), !.pc = "done"]
    /\ UNCHANGED <<call, globals>>

\* lines 82-94 on the lanes <<A, B>>
ApplyMulFold ==
    /\ fn.pc = "ready"
    /\ fn.op = "mulfold"
    /\ LET folded == MulFold(fn.x[1], fn.x[2])
       IN  fn' = [fn EXCEPT !.aux = folded, !.out = <<Zero64, Canonical(folded)>>,
                            !.pc = "done"]
    /\ UNCHANGED <<call, globals>>

NextArith == ApplyFirstBlock \/ ApplyAdd \/ ApplyMulAdd \/ ApplyMulFold

SpecArith == InitArith /\ [][NextArith]_vars

(***************************************************************************)
(* Properties.                                                             *)
(***************************************************************************)

Calls == DOMAIN call

IsUint64(w) == Len(w) = 4 /\ \A i \in 1..4 : w[i] \in 0..(Limb - 1)

\* the positions of a call that has left the block loop
AfterBlocks == {"final", "reduce", "fold", "mul", "return", "done"}

\* the positions at which hashBlock has just returned
AfterHashBlock == {"assign", "combine", "combineTail"}

\* no slice, lane read or table index of a call is out of range
InBounds ==
    \A c \in Calls :
        /\ call[c].pc # "panic"
        /\ \A k \in 1..Len(call[c].used) : call[c].used[k] \in 0..15
        /\ call[c].pc = "block" =>
              /\ Len(call[c].block) % 16 = 0
              /\ Len(call[c].block) <= BlockSize
              /\ call[c].boffset <= Len(call[c].block)
        /\ call[c].pc = "done" => IsUint64(call[c].result)

\* the steps hash has left after the block loop and the tail
FinalSteps == Cardinality({"final", "reduce", "fold", "mul", "return"})

\* the steps left for the tail after the block loop, and for the loop on nb blocks
TailSteps(s) == IF s.tailLen > 0 THEN Len(s.tail) \div 16 + 2 ELSE 0

LoopSteps(s, nb) ==
    (IF nb > 1 THEN (nb - 1) * (BlockSize \div 16 + 3) ELSE 0) + 1
    + TailSteps(s) + FinalSteps

\* the steps a call has left before it returns
Remaining(s) ==
    LET n    == IF s.pc \in {"Hash32", "Hash64", "Hash32Salt", "Hash64Salt"}
                THEN Len(s.buffer) + 4 ELSE Len(s.input)
        nb0  == n \div BlockSize
        tl0  == n % BlockSize
        tailSteps0 == IF tl0 > 0 THEN (tl0 + 15) \div 16 + 2 ELSE 0
        round == 1 + (IF s.numBlocks > 0 THEN LoopSteps(s, s.numBlocks) ELSE FinalSteps)
        start == 2 + (IF nb0 > 0
                      THEN BlockSize \div 16 + 3
                           + (IF nb0 > 1 THEN (nb0 - 1) * (BlockSize \div 16 + 3) ELSE 0)
                           + 1 + tailSteps0 + FinalSteps
                      ELSE (tl0 + 15) \div 16 + 3 + FinalSteps)
        afterBlock == IF s.ret = "assign" THEN 1 + round
                      ELSE IF s.ret = "combine" THEN 1 + LoopSteps(s, s.numBlocks - 1)
                      ELSE 1 + FinalSteps
    IN  CASE s.pc = "Hash32"      -> 3 + start
          [] s.pc = "Hash64"      -> 2 + start
          [] s.pc = "Hash32Salt"  -> 2 + start
          [] s.pc = "Hash64Salt"  -> 1 + start
          [] s.pc = "start"       -> start
          [] s.pc = "first"       -> start - 1
          [] s.pc = "block"       -> (Len(s.block) - s.boffset) \div 16 + 1 + afterBlock
          [] s.pc \in AfterHashBlock -> afterBlock
          [] s.pc = "round"       -> round
          [] s.pc = "loop"        -> LoopSteps(s, s.numBlocks)
          [] s.pc = "final"       -> 5
          [] s.pc = "reduce"      -> 4
          [] s.pc = "fold"        -> 3
          [] s.pc = "mul"         -> 2
          [] s.pc = "return"      -> 1
          [] s.pc = "done"        -> 0
          [] OTHER                -> -1

\* a call that has not returned has a step to take (the positions other than
\* "done" and "panic" are those of the actions, whose guards leave no gap), and
\* every step of a call brings its return one step nearer
Advances ==
    \A c \in Calls :
        /\ Remaining(call[c]) >= 0
        /\ call'[c] # call[c] => Remaining(call'[c]) = Remaining(call[c]) - 1

\* C1: for every input length hash ends with a 64-bit digest, and no slice of the
\* input or of the padded tail, no 16-byte lane read and no magicTable index is
\* ever out of range.
C1_Total == []InBounds /\ [][Advances]_vars

C1_Witness ==
    \E c \in Calls :
        /\ call[c].pc = "done"
        /\ call[c].kind = "hash"
        /\ Len(call[c].input) >= 2 * BlockSize
        /\ call[c].tailLen = 127

\* the steps the claim lists for an input of n bytes
ExpectedTrace(n) ==
    LET nb == n \div BlockSize
        tl == n % BlockSize
    IN  << IF nb > 0 THEN <<"absorb", "block", 0>> ELSE <<"absorb", "tail", n - tl>>,
           <<"add", "round", 0>> >>
        \o [k \in 1..(nb - 1) |-> <<"combine", "block", k * BlockSize>>]
        \o (IF nb > 0 /\ tl > 0 THEN << <<"combine", "tail", n - tl>> >> ELSE <<>>)

\* the bytes of the segment src of input: a full block, or the tail zero-padded
\* to a multiple of 16
Segment(input, src) ==
    IF src[1] = "block" THEN [i \in 1..BlockSize |-> input[src[2] + i]]
    ELSE [i \in 1..(16 * ((Len(input) - src[2] + 15) \div 16)) |->
             IF src[2] + i <= Len(input) THEN input[src[2] + i] ELSE 0]

IsPrefix(t, u) == Len(t) <= Len(u) /\ \A i \in 1..Len(t) : t[i] = u[i]

C3_Isolated ==
    /\ [](\A c \in Calls :
            call[c].pc = "done" =>
                LET alone == hash(HashInput(call[c].kind, call[c].buffer, call[c].salt))
                IN  /\ call[c].result = alone
                    /\ call[c].kind \in {"Hash32", "Hash32Salt"} =>
                          call[c].result32 = Fold32Of(alone))
    /\ [][/\ magicTable' = magicTable
          /\ magicRound' = magicRound
          /\ magicFinal' = magicFinal
          /\ \A c \in Calls : call'[c].buffer = call[c].buffer]_vars

\* one call has returned while the other, on another input, is between two
\* steps of its block loop
C3_Witness ==
    /\ Calls = {1, 2}
    /\ call[1].pc = "combine"
    /\ call[2].pc = "done"
    /\ call[1].input # call[2].input
    /\ call[1].tail # call[2].tail

\* the low 32 bits of x XOR its high 32 bits, bit by bit
ClaimFold32(x) ==
    LET bit(i) == (x[(i \div 16) + 1] \div (2^(i % 16))) % 2
        limb(j) == LET RECURSIVE sum(_)
                       sum(k) == IF k = 16 THEN 0
                                 ELSE ((bit(16 * j + k) + bit(16 * j + k + 32)) % 2) * (2^k)
                                      + sum(k + 1)
                   IN  sum(0)
    IN  <<limb(0), limb(1)>>

\* C4: Hash32Salt(b, s) = fold32(Hash64Salt(b, s)) for every buffer and seed, and
\* Hash32(b) = fold32(Hash64(b)).
C4_Fold32 ==
    \A c \in Calls : \A d \in Calls :
        ( /\ call[c].pc = "done"
          /\ call[d].pc = "done"
          /\ call[c].buffer = call[d].buffer
          /\ \/ call[c].kind = "Hash32Salt" /\ call[d].kind = "Hash64Salt"
                /\ call[c].salt = call[d].salt
             \/ call[c].kind = "Hash32" /\ call[d].kind = "Hash64" )
        => call[c].result32 = ClaimFold32(call[d].result)

C4_Witness ==
    /\ Calls = {1, 2}
    /\ call[1].pc = "done"
    /\ call[2].pc = "done"
    /\ call[1].kind = "Hash32Salt"
    /\ call[2].kind = "Hash64Salt"
    /\ Len(call[1].buffer) = 125
    /\ call[1].salt = call[2].salt
    /\ call[2].result[3] # 0
    /\ call[1].result32 # SubSeq(call[2].result, 1, 2)

\* the number a Uint128 stands for, as eight limbs
Val128(u) == u[2] \o u[1]

\* the step of line 62 of call c
AddsTailBits(c) == call[c].pc = "final" /\ call'[c].pc = "reduce"

\* C5 as the claim states it: the tail's bit length goes into the low limb.
C5_LowLimb ==
    [][\A c \in Calls :
          AddsTailBits(c) =>
              call'[c].hash = Add(call[c].hash, <<Zero64, U64(call[c].tailLen * 8)>>)]_vars

\* C5, amended: the tail's bit length goes into the high limb: the accumulator
\* becomes (hash + tailLen*8 * 2^64) mod 2^128, its low limb unchanged.
C5_HighLimb ==
    [][\A c \in Calls :
          AddsTailBits(c) =>
              /\ Val128(call'[c].hash) =
                    Fit(NatAdd(Val128(call[c].hash),
                               Zeros(4) \o U64(call[c].tailLen * 8)), 8)
              /\ call'[c].hash[2] = call[c].hash[2]]_vars

C5_Witness ==
    \E c \in Calls :
        /\ call[c].pc = "reduce"
        /\ call[c].tailLen = 127
        /\ Len(call[c].input) > BlockSize

Pow126 == Zeros(7) \o <<2^14>>

RECURSIVE LaneSum(_, _)
\* the exact sum over the lanes i, i+1, ... of block of
\* ((a_i + magicTable[2i]) mod 2^64) * ((b_i + magicTable[2i+1]) mod 2^64)
LaneSum(block, i) ==
    IF 16 * i >= Len(block) THEN <<0>>
    ELSE NatAdd(NatMul(Add64(LittleEndianUint64(block, 16 * i), magicTableInit[2 * i + 1]),
                       Add64(LittleEndianUint64(block, 16 * i + 8),
                             magicTableInit[2 * i + 2])),
                LaneSum(block, i + 1))

\* C9: for a block of 0, 16, ..., 128 bytes hashBlock returns the sum over its
\* lanes of ((a_i + magicTable[2i]) mod 2^64) * ((b_i + magicTable[2i+1]) mod 2^64),
\* taken mod 2^126; it reads each magicTable entry at most once, its result is
\* below 2^126, and an empty block gives 0.
C9_HashBlock ==
    \A c \in Calls :
        call[c].pc \in AfterHashBlock =>
            /\ Len(call[c].block) % 16 = 0
            /\ Len(call[c].block) <= BlockSize
            /\ Val128(call[c].bret) = NatMod(LaneSum(call[c].block, 0), Pow126)
            /\ NatCmp(Val128(call[c].bret), Pow126) < 0
            /\ \A i \in 1..Len(call[c].used) : \A j \in 1..Len(call[c].used) :
                   i # j => call[c].used[i] # call[c].used[j]
            /\ Len(call[c].used) = Len(call[c].block) \div 8
            /\ Len(call[c].block) = 0 => call[c].bret = Zero128

\* a full block whose exact sum of products does not fit in 126 bits
C9_Witness ==
    \E c \in Calls :
        /\ call[c].pc = "combine"
        /\ Len(call[c].block) = BlockSize
        /\ Len(call[c].used) = 16
        /\ NatCmp(LaneSum(call[c].block, 0), Pow126) > 0
        /\ call[c].bret # Zero128

\* byte i of the tail of x, zero beyond the tail
TailByte(x, i) ==
    IF i <= Len(x) % BlockSize THEN x[(Len(x) \div BlockSize) * BlockSize + i] ELSE 0

\* x and y have the same full blocks, and tails in the same number of 16-byte
\* lanes that differ only by trailing zero bytes
SameButTrailingZeros(x, y) ==
    LET nb  == Len(x) \div BlockSize
        tlx == Len(x) % BlockSize
        tly == Len(y) % BlockSize
    IN  /\ Len(y) \div BlockSize = nb
        /\ SubSeq(x, 1, nb * BlockSize) = SubSeq(y, 1, nb * BlockSize)
        /\ (tlx + 15) \div 16 = (tly + 15) \div 16
        /\ \A i \in 1..Max(tlx, tly) : TailByte(x, i) = TailByte(y, i)
        /\ (tlx > 0 /\ tly > 0) \/ nb = 0

\* C10: the padded tail has length 16*ceil(tailLen/16), holds the last tailLen
\* input bytes and zeros elsewhere; two inputs with the same full blocks whose
\* tails differ only by trailing zero bytes within the same number of lanes have
\* the same accumulator before finalization, and after line 62 their
\* accumulators differ by the tailLen*8 terms only.
C10_TailPadding ==
    /\ \A c \in Calls :
          call[c].pc \in AfterBlocks \cup AfterHashBlock \cup {"first", "block"} =>
              call[c].tail = Segment(call[c].input,
                                     <<"tail", Len(call[c].input) - call[c].tailLen>>)
    /\ \A c \in Calls : \A d \in Calls :
          SameButTrailingZeros(call[c].input, call[d].input) =>
              /\ (call[c].pc = "final" /\ call[d].pc = "final") =>
                    call[c].hash = call[d].hash
              /\ (call[c].pc = "reduce" /\ call[d].pc = "reduce") =>
                    Add(call[c].hash, TailBits(call[d].tailLen))
                      = Add(call[d].hash, TailBits(call[c].tailLen))

C10_Witness ==
    /\ Calls = {1, 2}
    /\ call[1].pc = "final"
    /\ call[2].pc = "final"
    /\ Len(call[1].input) = BlockSize + 15
    /\ Len(call[2].input) = BlockSize + 16
    /\ call[1].input[1] # 0
    /\ SameButTrailingZeros(call[1].input, call[2].input)

Pow64 == Zeros(4) \o <<1>>

\* C6: the digest of lines 82-94 is the canonical representative of A*B modulo
\* 2^64 - 257: after the two folds the high limb is 0 or 1, and the result is
\* at most 0xFFFFFFFFFFFFFEFE and congruent to A*B.
C6_ModP ==
    (fn.op = "mulfold" /\ fn.pc = "done") =>
        /\ fn.aux[1] \in {Zero64, U64(1)}
        /\ ~Lt64(W64(\hFFFF, \hFFFF, \hFFFF, \hFEFE), fn.out[2])
        /\ fn.out[2] = NatMod(NatMul(fn.x[1], fn.x[2]), P64)

\* the folded product carries into the high limb
C6_Witness ==
    /\ fn.op = "mulfold"
    /\ fn.pc = "done"
    /\ fn.aux[1] = U64(1)
    /\ fn.out[2] # Zero64

\* 2^127 - 1
P127 == [i \in 1..8 |-> IF i = 8 THEN \h7FFF ELSE \hFFFF]

\* out is congruent to h*m + a modulo 2^127 - 1
Congruent(out, h, m, a) ==
    NatMod(Val128(out), P127)
      = NatMod(NatAdd(NatMul(Val128(h), Val128(m)), Val128(a)), P127)

Fits64(n) == NatCmp(n, Pow64) < 0

\* the 32-bit limb k (0 = least significant) of a Uint128
Limb32(u, k) == SubSeq(Val128(u), 2 * k + 1, 2 * k + 2)

\* no sum, doubling or carry of hashMulAdd's limb arithmetic exceeds 64 bits,
\* each taken exactly from the values before it
NoWrap(h, m, a) ==
    LET hm(i, j) == NatMul(Limb32(h, i), Limb32(m, j))
        d(n)  == NatAdd(n, n)
        c0 == hm(0, 0)
        c1 == NatAdd(hm(0, 1), hm(1, 0))
        c2 == NatAdd(NatAdd(hm(0, 2), hm(1, 1)), hm(2, 0))
        c3 == NatAdd(NatAdd(NatAdd(hm(0, 3), hm(1, 2)), hm(2, 1)), hm(3, 0))
        c4 == NatAdd(NatAdd(hm(1, 3), hm(2, 2)), hm(3, 1))
        c5 == NatAdd(hm(2, 3), hm(3, 2))
        c6 == hm(3, 3)
        r2 == NatAdd(NatAdd(c2, d(c6)), a[1])
        r3 == NatAdd(c3, Shr64(Fit(r2, 4), 32))
        r0 == NatAdd(NatAdd(NatAdd(c0, d(c4)), Limb32(a, 0)), Shr64(Fit(r3, 4), 31))
        r1 == NatAdd(NatAdd(NatAdd(c1, d(c5)), Limb32(a, 1)), Shr64(Fit(r0, 4), 32))
    IN  /\ Fits64(c1) /\ Fits64(c2) /\ Fits64(c3) /\ Fits64(c4) /\ Fits64(c5)
        /\ Fits64(d(c4)) /\ Fits64(d(c5)) /\ Fits64(d(c6))
        /\ Fits64(r2) /\ Fits64(r3) /\ Fits64(r0) /\ Fits64(r1)

\* the block values hashBlock can return
Below126(a) == NatCmp(Val128(a), Pow126) < 0

\* C7 as the claim states it: for every accumulator h and every block value
\* a < 2^126, hashMulAdd(h, magicRound, a) is congruent to h*m + a mod 2^127 - 1.
C7_Congruent ==
    (fn.op = "hashMulAdd" /\ fn.pc = "done" /\ Below126(fn.y)) =>
        Congruent(fn.out, fn.x, magicRoundInit, fn.y)

\* C7, amended: the result is congruent to h*m + a mod 2^127 - 1 whenever none
\* of the 64-bit sums c1..c5, r0..r3 and doublings c4<<1, c5<<1, c6<<1 wraps.
C7_CongruentNoWrap ==
    (fn.op = "hashMulAdd" /\ fn.pc = "done" /\ Below126(fn.y)
       /\ NoWrap(fn.x, magicRoundInit, fn.y)) =>
        Congruent(fn.out, fn.x, magicRoundInit, fn.y)

C7_Witness ==
    /\ fn.op = "hashMulAdd"
    /\ fn.pc = "done"
    /\ fn.x = <<W64(\h1234, \h5678, \h0ABC, \hDEF0), W64(\h0FED, \hCBA9, \h3765, \h4321)>>
    /\ fn.y = u3fff
    /\ NoWrap(fn.x, magicRoundInit, fn.y)

\* C8: Add(a, b) = (a + b) mod 2^128: the low limb is (a.low + b.low) mod 2^64,
\* the high limb (a.high + b.high) mod 2^64 plus one exactly when
\* a.low + b.low >= 2^64, which is when the low limb of the sum is less than an
\* input low limb.
C8_Add ==
    (fn.op = "Add" /\ fn.pc = "done") =>
        LET lowSum == NatAdd(fn.x[2], fn.y[2])
            carry  == lowSum[5]
        IN  /\ Val128(fn.out) = Fit(NatAdd(Val128(fn.x), Val128(fn.y)), 8)
            /\ fn.out[2] = Fit(lowSum, 4)
            /\ fn.out[1] = Fit(NatAdd(NatAdd(fn.x[1], fn.y[1]), <<carry>>), 4)
            /\ carry = 1 <=> Lt64(fn.out[2], fn.y[2])
            /\ carry = 1 <=> Lt64(fn.out[2], fn.x[2])

\* a carry out of the low limb into a high limb that wraps
C8_Witness ==
    /\ fn.op = "Add"
    /\ fn.pc = "done"
    /\ fn.x = <<Max64, Max64>>
    /\ fn.y = <<Zero64, U64(1)>>
    /\ fn.out = Zero128

====
